---- MODULE Spec2Model ----
(***************************************************************************)
(* WritingSpanBuffer of dd-opentracing-cpp (src/src/span_buffer.cpp): the  *)
(* registry of pending traces, the sampling-priority protocol and the      *)
(* finalization of a completed trace, with the RulesSampler it drives.     *)
(***************************************************************************)
EXTENDS Integers, Sequences, FiniteSets, TLC

\* ------------------------------------------------------------------ bounds
MaxTraceId == 1
MaxSpanId == 2
MaxCreations == 2
MaxSamples == 1

TraceIds == 1..MaxTraceId
\* the trace ids calls are made with: MaxTraceId + 1 is a trace never registered
CallTraceIds == 1..(MaxTraceId + 1)
SpanIds == 1..MaxSpanId
\* 0: no parent; MaxSpanId + 1: a parent in another process, never registered here
ParentIds == 0..(MaxSpanId + 1)

\* ------------------------------------------------------------- value types
nullptr == "nullptr"
SamplingPriorities == {"UserDrop", "SamplerDrop", "SamplerKeep", "UserKeep"}
OptionalSamplingPriorities == SamplingPriorities \cup {nullptr}

\* static_cast<int>(SamplingPriority)
PriorityInt(p) ==
  CASE p = "UserDrop" -> -1
    [] p = "SamplerDrop" -> 0
    [] p = "SamplerKeep" -> 1
    [] p = "UserKeep" -> 2

\* rates are percentages; NaN stands for an unset rate
NaN == -1

sampling_priority_metric == "_sampling_priority_v1"
datadog_origin_tag == "_dd.origin"
datadog_hostname_tag == "_dd.hostname"
event_sample_rate_metric == "_dd1.sr.eausr"
rules_sampler_applied_rate == "_dd.rule_psr"
rules_sampler_limiter_rate == "_dd.limit_psr"
priority_sampler_applied_rate == "_dd.agent_psr"

EmptyMap == [k \in {} |-> 0]
Put(m, k, v) == [x \in (DOMAIN m) \cup {k} |-> IF x = k THEN v ELSE m[x]]
Has(m, k) == k \in DOMAIN m

\* ---------------------------------------------------------------- sampler
\* RulesSampler, PrioritySampler and Limiter (sample.h); their source file is not
\* part of src/, so they follow spec.md 4.3-4.5 and test/sample_test.cpp.
Absent == "<absent>"
Services == {"test.service", "any.service"}
Names == {"test.trace", "any.name"}
Envs == {""}

\* limiter parameters of the test fixture
max_tokens == 1
refresh_rate == 1
tokens_per_refresh == 1
\* number of most recent allow() calls the effective rate is taken over
RateWindow == 2

\* rule lists (sampling_rules of the tracer options), rates in percent
RulesKeepAll == << [name |-> Absent, service |-> Absent, sample_rate |-> 100] >>
RulesTestTrace ==
  << [name |-> "test.trace", service |-> "test.service", sample_rate |-> 10] >>
RuleConfigs == {RulesKeepAll, RulesTestTrace}

\* agent-supplied rates of the PrioritySampler, keyed by service and env
agent_sampling_rates == {[service |-> "any.service", env |-> "", rate |-> 50]}
default_sample_rate == 100

\* deterministic value in [0, 100) derived from the trace id
KnuthFactor == 37
HashPct(trace_id) == (trace_id * KnuthFactor) % 100

RuleMatches(rule, service, name) ==
  /\ (rule.name = Absent \/ rule.name = name)
  /\ (rule.service = Absent \/ rule.service = service)

\* a bug: the scan does not stop at the first hit, the last matching rule wins
match_LastHit(rs, service, name) ==
  LET hits == {i \in 1..Len(rs) : RuleMatches(rs[i], service, name)}
  IN IF hits = {} THEN [matched |-> FALSE, rate |-> NaN]
     ELSE LET last == CHOOSE i \in hits : \A j \in hits : i >= j
          IN [matched |-> TRUE, rate |-> rs[last].sample_rate]

\* RulesSampler::match: the first rule whose specified fields all equal the input
match(rs, service, name) ==
  LET hits == {i \in 1..Len(rs) : RuleMatches(rs[i], service, name)}
  IN IF hits = {} THEN [matched |-> FALSE, rate |-> NaN]
     ELSE LET first == CHOOSE i \in hits : \A j \in hits : i <= j
          IN [matched |-> TRUE, rate |-> rs[first].sample_rate]

Min(a, b) == IF a <= b THEN a ELSE b

InitLimiter == [tokens |-> max_tokens, next_refresh |-> refresh_rate, recent |-> << >>]

\* Limiter::allow: lazy refill in whole refresh intervals, then take one token
Limiter_allow(lim, t) ==
  LET intervals == IF t >= lim.next_refresh
                   THEN ((t - lim.next_refresh) \div refresh_rate) + 1 ELSE 0
      filled == Min(max_tokens, lim.tokens + intervals * tokens_per_refresh)
      allowed == filled > 0
      rec == IF Len(lim.recent) < RateWindow THEN Append(lim.recent, allowed)
             ELSE Append(Tail(lim.recent), allowed)
      admitted == Cardinality({i \in 1..Len(rec) : rec[i]})
  IN [allowed |-> allowed,
      effective_rate |-> (100 * admitted) \div Len(rec),
      limiter |-> [tokens |-> IF allowed THEN filled - 1 ELSE filled,
                   next_refresh |-> lim.next_refresh + intervals * refresh_rate,
                   recent |-> rec]]

\* PrioritySampler::sample
PrioritySampler_sample(env, service, trace_id) ==
  LET hit == {r \in agent_sampling_rates : r.service = service /\ r.env = env}
      rate == IF hit = {} THEN default_sample_rate ELSE (CHOOSE r \in hit : TRUE).rate
  IN [sampling_priority |-> IF HashPct(trace_id) < rate THEN "SamplerKeep" ELSE "SamplerDrop",
      rule_rate |-> NaN, limiter_rate |-> NaN, priority_rate |-> rate]

\* a bug: a rule-based decision is reported as an automatic one
RulesSampler_sample_AsSampler(rs, lim, t, env, service, name, trace_id) ==
  LET m == match(rs, service, name)
      a == Limiter_allow(lim, t)
      keep == HashPct(trace_id) < m.rate /\ a.allowed
  IN IF ~m.matched
       THEN [result |-> PrioritySampler_sample(env, service, trace_id), limiter |-> lim]
     ELSE [result |-> [sampling_priority |-> IF keep THEN "SamplerKeep" ELSE "SamplerDrop",
                       rule_rate |-> m.rate,
                       limiter_rate |-> IF HashPct(trace_id) < m.rate
                                          THEN a.effective_rate ELSE NaN,
                       priority_rate |-> NaN],
           limiter |-> IF HashPct(trace_id) < m.rate THEN a.limiter ELSE lim]

\* RulesSampler::sample: the result and the limiter it leaves behind
RulesSampler_sample(rs, lim, t, env, service, name, trace_id) ==
  LET m == match(rs, service, name)
      a == Limiter_allow(lim, t)
  IN IF ~m.matched
       THEN [result |-> PrioritySampler_sample(env, service, trace_id), limiter |-> lim]
     ELSE IF ~(HashPct(trace_id) < m.rate)
       THEN [result |-> [sampling_priority |-> "UserDrop", rule_rate |-> m.rate,
                         limiter_rate |-> NaN, priority_rate |-> NaN],
             limiter |-> lim]
     ELSE [result |-> [sampling_priority |-> IF a.allowed THEN "UserKeep" ELSE "UserDrop",
                       rule_rate |-> m.rate, limiter_rate |-> a.effective_rate,
                       priority_rate |-> NaN],
           limiter |-> a.limiter]

\* ------------------------------------------------------------ span buffer
NoSampleResult ==
  [sampling_priority |-> nullptr, rule_rate |-> NaN, limiter_rate |-> NaN,
   priority_rate |-> NaN]

\* PendingTrace{logger_}
NewPendingTrace ==
  [all_spans |-> {}, finished_spans |-> << >>, sampling_priority |-> nullptr,
   sampling_priority_locked |-> FALSE, origin |-> "", hostname |-> "",
   analytics_rate |-> NaN, sample_result |-> NoSampleResult]

\* a bug: only a span without a parent id counts as a root
is_root_OnlyParentless(span, all_spans_in_trace) == span.parent_id = 0

is_root(span, all_spans_in_trace) ==
  span.parent_id = 0 \/ span.parent_id \notin all_spans_in_trace

finish_span(trace, span) ==
  IF trace.origin # ""
    THEN [span EXCEPT !.meta = Put(@, datadog_origin_tag, trace.origin)]
    ELSE span

\* a bug: _dd.limit_psr is written without the isnan test
finish_root_span_LimiterRateUnchecked(trace, span) ==
  LET s1 == IF trace.sampling_priority # nullptr
              THEN [span EXCEPT !.metrics =
                      Put(@, sampling_priority_metric, PriorityInt(trace.sampling_priority))]
              ELSE span
      s2 == IF trace.hostname # ""
              THEN [s1 EXCEPT !.meta = Put(@, datadog_hostname_tag, trace.hostname)]
              ELSE s1
      s3 == IF trace.analytics_rate # NaN /\ ~Has(s2.metrics, event_sample_rate_metric)
              THEN [s2 EXCEPT !.metrics = Put(@, event_sample_rate_metric, trace.analytics_rate)]
              ELSE s2
      s4 == IF trace.sample_result.rule_rate # NaN
              THEN [s3 EXCEPT !.metrics =
                      Put(@, rules_sampler_applied_rate, trace.sample_result.rule_rate)]
              ELSE s3
      s5 == [s4 EXCEPT !.metrics =
               Put(@, rules_sampler_limiter_rate, trace.sample_result.limiter_rate)]
      s6 == IF trace.sample_result.priority_rate # NaN
              THEN [s5 EXCEPT !.metrics =
                      Put(@, priority_sampler_applied_rate, trace.sample_result.priority_rate)]
              ELSE s5
  IN finish_span(trace, s6)

finish_root_span(trace, span) ==
  LET s1 == IF trace.sampling_priority # nullptr
              THEN [span EXCEPT !.metrics =
                      Put(@, sampling_priority_metric, PriorityInt(trace.sampling_priority))]
              ELSE span
      s2 == IF trace.hostname # ""
              THEN [s1 EXCEPT !.meta = Put(@, datadog_hostname_tag, trace.hostname)]
              ELSE s1
      s3 == IF trace.analytics_rate # NaN /\ ~Has(s2.metrics, event_sample_rate_metric)
              THEN [s2 EXCEPT !.metrics = Put(@, event_sample_rate_metric, trace.analytics_rate)]
              ELSE s2
      s4 == IF trace.sample_result.rule_rate # NaN
              THEN [s3 EXCEPT !.metrics =
                      Put(@, rules_sampler_applied_rate, trace.sample_result.rule_rate)]
              ELSE s3
      s5 == IF trace.sample_result.limiter_rate # NaN
              THEN [s4 EXCEPT !.metrics =
                      Put(@, rules_sampler_limiter_rate, trace.sample_result.limiter_rate)]
              ELSE s4
      s6 == IF trace.sample_result.priority_rate # NaN
              THEN [s5 EXCEPT !.metrics =
                      Put(@, priority_sampler_applied_rate, trace.sample_result.priority_rate)]
              ELSE s5
  IN finish_span(trace, s6)

\* the treatment PendingTrace::finish gives one span
FinishOne(trace, span) ==
  IF is_root(span, trace.all_spans) THEN finish_root_span(trace, span)
  ELSE finish_span(trace, span)

PendingTrace_finish(trace) ==
  [trace EXCEPT !.finished_spans =
     [i \in 1..Len(trace.finished_spans) |-> FinishOne(trace, trace.finished_spans[i])]]

\* a bug: a propagated priority is stored but not locked
CreatedTrace_Unlocked(ctx, options) ==
  [NewPendingTrace EXCEPT
     !.sampling_priority = ctx.propagated_sampling_priority,
     !.origin = IF ctx.origin # "" THEN ctx.origin ELSE @,
     !.hostname = options.hostname,
     !.analytics_rate = options.analytics_rate]

\* the trace a registerSpan call creates (lines 92-101)
CreatedTrace(ctx, options) ==
  [NewPendingTrace EXCEPT
     !.sampling_priority_locked = ctx.propagated_sampling_priority # nullptr,
     !.sampling_priority = ctx.propagated_sampling_priority,
     !.origin = IF ctx.origin # "" THEN ctx.origin ELSE @,
     !.hostname = options.hostname,
     !.analytics_rate = options.analytics_rate]

\* whether registerSpan takes the creating branch (line 91)
CreatesTrace(traces, trace_id) ==
  trace_id \notin DOMAIN traces \/ traces[trace_id].all_spans = {}

registerSpan(traces, ctx, options) ==
  LET entry == IF CreatesTrace(traces, ctx.trace_id) THEN CreatedTrace(ctx, options)
               ELSE traces[ctx.trace_id]
  IN [i \in (DOMAIN traces) \cup {ctx.trace_id} |->
        IF i = ctx.trace_id THEN [entry EXCEPT !.all_spans = @ \cup {ctx.id}]
        ELSE traces[i]]

getSamplingPriorityImpl(traces, trace_id) ==
  IF trace_id \notin DOMAIN traces THEN nullptr
  ELSE traces[trace_id].sampling_priority

\* a bug: the lock is not consulted
setSamplingPriorityImpl_NoLockCheck(traces, trace_id, priority) ==
  IF trace_id \notin DOMAIN traces THEN traces
  ELSE IF priority = nullptr
    THEN [traces EXCEPT ![trace_id].sampling_priority = nullptr]
  ELSE [traces EXCEPT
          ![trace_id].sampling_priority = priority,
          ![trace_id].sampling_priority_locked =
             IF priority \in {"SamplerDrop", "SamplerKeep"} THEN TRUE ELSE @]

\* a bug: every priority that is set locks the trace
setSamplingPriorityImpl_AlwaysLocks(traces, trace_id, priority) ==
  IF trace_id \notin DOMAIN traces THEN traces
  ELSE IF traces[trace_id].sampling_priority_locked THEN traces
  ELSE IF priority = nullptr
    THEN [traces EXCEPT ![trace_id].sampling_priority = nullptr]
  ELSE [traces EXCEPT
          ![trace_id].sampling_priority = priority,
          ![trace_id].sampling_priority_locked = TRUE]

\* a bug: an absent priority resets the stored one before the lock is looked at
setSamplingPriorityImpl_ResetBeforeLock(traces, trace_id, priority) ==
  IF trace_id \notin DOMAIN traces THEN traces
  ELSE IF priority = nullptr
    THEN [traces EXCEPT ![trace_id].sampling_priority = nullptr]
  ELSE IF traces[trace_id].sampling_priority_locked THEN traces
  ELSE [traces EXCEPT
          ![trace_id].sampling_priority = priority,
          ![trace_id].sampling_priority_locked =
             IF priority \in {"SamplerDrop", "SamplerKeep"} THEN TRUE ELSE @]

\* the registry setSamplingPriorityImpl leaves; it returns getSamplingPriorityImpl of it
setSamplingPriorityImpl(traces, trace_id, priority) ==
  IF trace_id \notin DOMAIN traces THEN traces
  ELSE IF traces[trace_id].sampling_priority_locked THEN traces
  ELSE IF priority = nullptr
    THEN [traces EXCEPT ![trace_id].sampling_priority = nullptr]
  ELSE [traces EXCEPT
          ![trace_id].sampling_priority = priority,
          ![trace_id].sampling_priority_locked =
             IF priority \in {"SamplerDrop", "SamplerKeep"} THEN TRUE ELSE @]

\* a bug: the limiter's rate is not copied into the trace
setSamplerResult_NoLimiterRate(traces, trace_id, sample_result) ==
  IF trace_id \notin DOMAIN traces THEN traces
  ELSE [traces EXCEPT
          ![trace_id].sample_result.rule_rate = sample_result.rule_rate,
          ![trace_id].sample_result.priority_rate = sample_result.priority_rate,
          ![trace_id].sample_result.sampling_priority =
             IF sample_result.sampling_priority # nullptr
               THEN sample_result.sampling_priority ELSE @]

\* a bug: the priority sampler's rate is not copied into the trace
setSamplerResult_NoPriorityRate(traces, trace_id, sample_result) ==
  IF trace_id \notin DOMAIN traces THEN traces
  ELSE [traces EXCEPT
          ![trace_id].sample_result.rule_rate = sample_result.rule_rate,
          ![trace_id].sample_result.limiter_rate = sample_result.limiter_rate,
          ![trace_id].sample_result.sampling_priority =
             IF sample_result.sampling_priority # nullptr
               THEN sample_result.sampling_priority ELSE @]

setSamplerResult(traces, trace_id, sample_result) ==
  IF trace_id \notin DOMAIN traces THEN traces
  ELSE [traces EXCEPT
          ![trace_id].sample_result.rule_rate = sample_result.rule_rate,
          ![trace_id].sample_result.limiter_rate = sample_result.limiter_rate,
          ![trace_id].sample_result.priority_rate = sample_result.priority_rate,
          ![trace_id].sample_result.sampling_priority =
             IF sample_result.sampling_priority # nullptr
               THEN sample_result.sampling_priority ELSE @]

\* a bug: the sampler is invoked whatever priority is stored
sampling_priority_unset_Always(traces, trace_id) == TRUE

\* whether assignSamplingPriorityImpl invokes the sampler (lines 198-199)
sampling_priority_unset(traces, trace_id) ==
  getSamplingPriorityImpl(traces, trace_id) = nullptr

\* a bug: the sampler is invoked and its result recorded without the test of
\* sampling_priority_unset
assignSamplingPriorityImpl_Resample(traces, rs, lim, t, span) ==
  LET s == RulesSampler_sample(rs, lim, t, span.env, span.service, span.name, span.trace_id)
      after == setSamplerResult(
                 setSamplingPriorityImpl(traces, span.trace_id, s.result.sampling_priority),
                 span.trace_id, s.result)
  IN [traces |-> after, limiter |-> s.limiter,
      sampled |-> sampling_priority_unset(traces, span.trace_id),
      ret |-> getSamplingPriorityImpl(after, span.trace_id)]

\* assignSamplingPriorityImpl: the registry and limiter it leaves, whether it
\* invoked the sampler, and the priority it returns
assignSamplingPriorityImpl(traces, rs, lim, t, span) ==
  LET s == RulesSampler_sample(rs, lim, t, span.env, span.service, span.name, span.trace_id)
      after == setSamplerResult(
                 setSamplingPriorityImpl(traces, span.trace_id, s.result.sampling_priority),
                 span.trace_id, s.result)
  IN IF sampling_priority_unset(traces, span.trace_id)
       THEN [traces |-> after, limiter |-> s.limiter, sampled |-> TRUE,
             ret |-> getSamplingPriorityImpl(after, span.trace_id)]
       ELSE [traces |-> traces, limiter |-> lim, sampled |-> FALSE,
             ret |-> getSamplingPriorityImpl(traces, span.trace_id)]

\* a bug: the span id is not looked up in all_spans
Rejects_UnknownTraceOnly(traces, span) == span.trace_id \notin DOMAIN traces

\* whether finishSpan logs and discards the span (lines 108-117)
Rejects(traces, span) ==
  \/ span.trace_id \notin DOMAIN traces
  \/ span.span_id \notin traces[span.trace_id].all_spans

\* a bug: the entry is left in the registry
eraseTrace_Kept(traces, trace_id) == traces

\* traces_.erase(trace_iter) (line 136)
eraseTrace(traces, trace_id) == [i \in (DOMAIN traces) \ {trace_id} |-> traces[i]]

\* a bug: the completion test is off by one
IsComplete_OffByOne(trace) == Len(trace.finished_spans) = Cardinality(trace.all_spans) + 1

\* a bug: the trace is completed by the first span finished
IsComplete_FirstFinished(trace) == Len(trace.finished_spans) >= 1

\* the completion test of finishSpan (line 120)
IsComplete(trace) == Len(trace.finished_spans) = Cardinality(trace.all_spans)

\* ------------------------------------------------------------------ state
VARIABLES
  traces_,     \* trace id -> PendingTrace (the registry)
  mutex_,      \* "free", or "held" by the call in flight
  pc,          \* position of the finishSpan call that completes a trace
  cur,         \* trace id that call is completing (0: none)
  options_,    \* WritingSpanBufferOptions: enabled, hostname, analytics_rate
  rules_,      \* the sampler's rule list
  limiter_,    \* the sampler's Limiter
  now,         \* the clock the Limiter reads (the fixed mock clock of the tests)
  writer_,     \* the sequence Writer.write was handed by the call in flight
  ret,         \* the last call: its name, arguments and returned priority
  created,     \* trace id -> PendingTraces created for it so far
  completed,   \* trace id -> completion steps (lines 121-123) entered for it
  written,     \* trace id -> Writer.write calls made for it
  sampled,     \* trace id -> sampler invocations since its entry was created
  propagated   \* trace id -> priority propagated to the registerSpan that created it

vars == <<traces_, mutex_, pc, cur, options_, rules_, limiter_, now, writer_, ret,
          created, completed, written, sampled, propagated>>

\* what each call leaves alone
config == <<options_, rules_>>
flight == <<mutex_, pc, cur, writer_>>
counts == <<created, completed, written>>
life == <<sampled, propagated>>

\* ----------------------------------------------------------------- inputs
\* the spans of the application: a span id names one span, with one service and
\* operation name; its parent is none (0), a span started before it (a smaller
\* id) or a span of another process (MaxSpanId + 1)
ServiceOf(span_id) == IF span_id % 2 = 1 THEN "test.service" ELSE "any.service"
NameOf(span_id) == IF span_id % 2 = 1 THEN "test.trace" ELSE "any.name"
SpanDatas ==
  {s \in [trace_id : CallTraceIds, span_id : SpanIds, parent_id : ParentIds,
          service : Services, name : Names, env : Envs, meta : {EmptyMap},
          metrics : {EmptyMap}] :
     /\ s.service = ServiceOf(s.span_id) /\ s.name = NameOf(s.span_id)
     /\ (s.parent_id < s.span_id \/ s.parent_id = MaxSpanId + 1)}
Origins == {"", "synthetics"}
SpanContexts ==
  [trace_id : TraceIds, id : SpanIds,
   propagated_sampling_priority : OptionalSamplingPriorities, origin : Origins]
\* reporting on or off, and hostname and analytics rate both configured or neither
Options ==
  {o \in [enabled : BOOLEAN, hostname : {"", "host1"}, analytics_rate : {NaN, 100}] :
     (o.hostname = "") = (o.analytics_rate = NaN)}

\* a call on trace_id with a span id (0: none) or a priority, and what it returned
Call(op, trace_id, span_id, priority, value) ==
  [op |-> op, trace_id |-> trace_id, span_id |-> span_id, priority |-> priority,
   value |-> value]

Init ==
  /\ traces_ = << >>
  /\ mutex_ = "free"
  /\ pc = "idle"
  /\ cur = 0
  /\ options_ \in Options
  /\ rules_ \in RuleConfigs
  /\ limiter_ = InitLimiter
  /\ now = 0
  /\ writer_ = << >>
  /\ ret = Call("none", 0, 0, nullptr, nullptr)
  /\ created = [i \in TraceIds |-> 0]
  /\ completed = [i \in TraceIds |-> 0]
  /\ written = [i \in TraceIds |-> 0]
  /\ sampled = [i \in TraceIds |-> 0]
  /\ propagated = [i \in TraceIds |-> nullptr]

\* a bug: calls do not wait for mutex_
LockFree_NoWait == TRUE

\* std::lock_guard<std::mutex>: a call starts only when no other call holds mutex_
LockFree == mutex_ = "free"

\* ---------------------------------------------------------------- actions
RegisterSpan(ctx) ==
  /\ LockFree
  /\ CreatesTrace(traces_, ctx.trace_id) => created[ctx.trace_id] < MaxCreations
  /\ traces_' = registerSpan(traces_, ctx, options_)
  /\ IF CreatesTrace(traces_, ctx.trace_id)
       THEN /\ created' = [created EXCEPT ![ctx.trace_id] = @ + 1]
            /\ propagated' = [propagated EXCEPT ![ctx.trace_id] = ctx.propagated_sampling_priority]
            /\ sampled' = [sampled EXCEPT ![ctx.trace_id] = 0]
       ELSE UNCHANGED <<created, propagated, sampled>>
  /\ ret' = Call("registerSpan", ctx.trace_id, ctx.id, nullptr, nullptr)
  /\ UNCHANGED <<flight, config, limiter_, now, completed, written>>

\* finishSpan, lines 107-120: the rejections, the push_back and the completion test
FinishSpan(span) ==
  /\ LockFree
  /\ ret' = Call("finishSpan", span.trace_id, span.span_id, nullptr, nullptr)
  /\ IF Rejects(traces_, span)
       THEN UNCHANGED <<traces_, flight, completed>>
     ELSE LET pushed == [traces_ EXCEPT ![span.trace_id].finished_spans = Append(@, span)]
          IN /\ traces_' = pushed
             /\ IF IsComplete(pushed[span.trace_id])
                  THEN /\ mutex_' = "held"
                       /\ pc' = "complete"
                       /\ cur' = span.trace_id
                       /\ completed' = [completed EXCEPT ![span.trace_id] = @ + 1]
                       /\ UNCHANGED writer_
                  ELSE UNCHANGED <<flight, completed>>
  /\ UNCHANGED <<config, limiter_, now, created, written, life>>

\* finishSpan, lines 121-122: assignSamplingPriorityImpl(trace.finished_spans->back().get())
\* and trace.finish()
\* a bug: the completing call finishes the trace without assigning a priority
Complete_NoAssign ==
  /\ pc = "complete"
  /\ traces_' = [traces_ EXCEPT ![cur] = PendingTrace_finish(@)]
  /\ pc' = "unbuffer"
  /\ UNCHANGED <<mutex_, cur, writer_, ret, config, limiter_, now, counts, life>>

\* a bug: the sampler is given the first finished span, not the last
Complete_SamplesFront ==
  /\ pc = "complete"
  /\ LET fs == traces_[cur].finished_spans
         r == assignSamplingPriorityImpl(traces_, rules_, limiter_, now, fs[1])
     IN /\ traces_' = [r.traces EXCEPT ![cur] = PendingTrace_finish(@)]
        /\ limiter_' = r.limiter
        /\ sampled' = [sampled EXCEPT ![cur] = IF r.sampled THEN @ + 1 ELSE @]
  /\ pc' = "unbuffer"
  /\ UNCHANGED <<mutex_, cur, writer_, ret, config, now, counts, propagated>>

Complete ==
  /\ pc = "complete"
  /\ LET fs == traces_[cur].finished_spans
         r == assignSamplingPriorityImpl(traces_, rules_, limiter_, now, fs[Len(fs)])
     IN /\ traces_' = [r.traces EXCEPT ![cur] = PendingTrace_finish(@)]
        /\ limiter_' = r.limiter
        /\ sampled' = [sampled EXCEPT ![cur] = IF r.sampled THEN @ + 1 ELSE @]
  /\ pc' = "unbuffer"
  /\ UNCHANGED <<mutex_, cur, writer_, ret, config, now, counts, propagated>>

\* a bug: the entry is erased before its spans are handed to the Writer
UnbufferWrite_EraseFirst ==
  /\ pc = "unbuffer"
  /\ IF cur \in DOMAIN traces_ /\ options_.enabled
       THEN /\ writer_' = traces_[cur].finished_spans
            /\ written' = [written EXCEPT ![cur] = @ + 1]
       ELSE UNCHANGED <<writer_, written>>
  /\ traces_' = eraseTrace(traces_, cur)
  /\ pc' = "erase"
  /\ UNCHANGED <<mutex_, cur, ret, config, limiter_, now, created, completed, life>>

\* unbufferAndWriteTrace, lines 128-135: writer_->write(std::move(trace.finished_spans))
UnbufferWrite ==
  /\ pc = "unbuffer"
  /\ IF cur \in DOMAIN traces_ /\ options_.enabled
       THEN /\ writer_' = traces_[cur].finished_spans
            /\ traces_' = [traces_ EXCEPT ![cur].finished_spans = << >>]
            /\ written' = [written EXCEPT ![cur] = @ + 1]
       ELSE UNCHANGED <<writer_, traces_, written>>
  /\ pc' = "erase"
  /\ UNCHANGED <<mutex_, cur, ret, config, limiter_, now, created, completed, life>>

\* a bug: the erase sits inside if (options_.enabled)
UnbufferErase_OnlyIfEnabled ==
  /\ pc = "erase"
  /\ traces_' = IF options_.enabled THEN eraseTrace(traces_, cur) ELSE traces_
  /\ pc' = "idle"
  /\ mutex_' = "free"
  /\ cur' = 0
  /\ writer_' = << >>
  /\ sampled' = [sampled EXCEPT ![cur] = 0]
  /\ propagated' = [propagated EXCEPT ![cur] = nullptr]
  /\ UNCHANGED <<ret, config, limiter_, now, counts>>

\* unbufferAndWriteTrace, line 136, and the return of finishSpan (mutex_ released)
UnbufferErase ==
  /\ pc = "erase"
  /\ traces_' = eraseTrace(traces_, cur)
  /\ pc' = "idle"
  /\ mutex_' = "free"
  /\ cur' = 0
  /\ writer_' = << >>
  /\ sampled' = [sampled EXCEPT ![cur] = 0]
  /\ propagated' = [propagated EXCEPT ![cur] = nullptr]
  /\ UNCHANGED <<ret, config, limiter_, now, counts>>

GetSamplingPriority(trace_id) ==
  /\ LockFree
  /\ ret' = Call("getSamplingPriority", trace_id, 0, nullptr,
               getSamplingPriorityImpl(traces_, trace_id))
  /\ UNCHANGED <<traces_, flight, config, limiter_, now, counts, life>>

SetSamplingPriority(trace_id, priority) ==
  /\ LockFree
  /\ traces_' = setSamplingPriorityImpl(traces_, trace_id, priority)
  /\ ret' = Call("setSamplingPriority", trace_id, 0, priority,
               getSamplingPriorityImpl(traces_', trace_id))
  /\ UNCHANGED <<flight, config, limiter_, now, counts, life>>

AssignSamplingPriority(span) ==
  /\ LockFree
  /\ (span.trace_id \in DOMAIN traces_ /\ sampling_priority_unset(traces_, span.trace_id))
       => sampled[span.trace_id] < MaxSamples
  /\ LET r == assignSamplingPriorityImpl(traces_, rules_, limiter_, now, span)
     IN /\ traces_' = r.traces
        /\ limiter_' = r.limiter
        /\ ret' = Call("assignSamplingPriority", span.trace_id, span.span_id, nullptr, r.ret)
        /\ sampled' = IF r.sampled /\ span.trace_id \in DOMAIN traces_
                         THEN [sampled EXCEPT ![span.trace_id] = @ + 1] ELSE sampled
  /\ UNCHANGED <<flight, config, now, counts, propagated>>

\* assignSamplingPriority reads the span's trace id, env, service and name only
AssignInputs == {s \in SpanDatas : s.parent_id = 0}

Next ==
  \/ \E ctx \in SpanContexts : RegisterSpan(ctx)
  \/ \E span \in SpanDatas : FinishSpan(span)
  \/ Complete
  \/ UnbufferWrite
  \/ UnbufferErase
  \/ \E id \in CallTraceIds : GetSamplingPriority(id)
  \/ \E id \in CallTraceIds, p \in OptionalSamplingPriorities : SetSamplingPriority(id, p)
  \/ \E span \in AssignInputs : AssignSamplingPriority(span)

Spec == Init /\ [][Next]_vars

\* the thread inside a completing finishSpan call keeps running: each of its
\* steps is taken once it is enabled
LiveSpec ==
  /\ Init /\ [][Next]_vars
  /\ WF_vars(Complete) /\ WF_vars(UnbufferWrite) /\ WF_vars(UnbufferErase)

\* ------------------------------------------------- the sampler on its own
\* RulesSampler::match and RulesSampler::sample called directly, as the tests do,
\* on rule lists of several rules and with a clock that can advance
MaxClock == 2
MaxRules == 2
MaxSampleTraceId == 3

SampleTraceIds == 1..MaxSampleTraceId
SamplerServices == {"test.service", "any.service", "service.only.match"}
SamplerNames == {"test.trace", "any.name", "name.only.match"}

\* the rule list of the test section "rule matching applied"
RulesOfTest ==
  << [name |-> "test.trace", service |-> "test.service", sample_rate |-> 10],
     [name |-> "name.only.match", service |-> Absent, sample_rate |-> 20],
     [name |-> Absent, service |-> "service.only.match", sample_rate |-> 30],
     [name |-> "overridden operation name", service |-> Absent, sample_rate |-> 40],
     [name |-> Absent, service |-> Absent, sample_rate |-> 100] >>
\* the rules other lists are made of: three of the above, keep-all and drop-all
RulePool == {RulesOfTest[1], RulesOfTest[2], RulesOfTest[3], RulesOfTest[5],
             [name |-> Absent, service |-> Absent, sample_rate |-> 0]}
SamplerRuleLists ==
  {RulesOfTest} \cup UNION {[1..n -> RulePool] : n \in 0..MaxRules}

SamplerInit ==
  /\ traces_ = << >>
  /\ mutex_ = "free"
  /\ pc = "idle"
  /\ cur = 0
  /\ options_ = [enabled |-> TRUE, hostname |-> "", analytics_rate |-> NaN]
  /\ rules_ \in SamplerRuleLists
  /\ limiter_ = InitLimiter
  /\ now = 0
  /\ writer_ = << >>
  /\ ret = [op |-> "none"]
  /\ created = [i \in TraceIds |-> 0]
  /\ completed = [i \in TraceIds |-> 0]
  /\ written = [i \in TraceIds |-> 0]
  /\ sampled = [i \in TraceIds |-> 0]
  /\ propagated = [i \in TraceIds |-> nullptr]

\* sampler->match(service, name)
Match(service, name) ==
  /\ ret' = [op |-> "match", service |-> service, name |-> name,
             result |-> match(rules_, service, name)]
  /\ UNCHANGED <<traces_, flight, config, limiter_, now, counts, life>>

\* sampler->sample(env, service, name, trace_id)
Sample(env, service, name, trace_id) ==
  /\ LET s == RulesSampler_sample(rules_, limiter_, now, env, service, name, trace_id)
     IN /\ limiter_' = s.limiter
        /\ ret' = [op |-> "sample", env |-> env, service |-> service, name |-> name,
                   trace_id |-> trace_id, result |-> s.result]
  /\ UNCHANGED <<traces_, flight, config, now, counts, life>>

\* the injected clock advances
Tick ==
  /\ now < MaxClock
  /\ now' = now + 1
  /\ ret' = [op |-> "tick"]
  /\ UNCHANGED <<traces_, flight, config, limiter_, counts, life>>

SamplerNext ==
  \/ \E service \in SamplerServices, name \in SamplerNames : Match(service, name)
  \/ \E env \in Envs, service \in SamplerServices, name \in SamplerNames,
        trace_id \in SampleTraceIds : Sample(env, service, name, trace_id)
  \/ Tick

SamplerSpec == SamplerInit /\ [][SamplerNext]_vars

\* ----------------------------------------------------------------- claims
FinishedIds(trace) == {trace.finished_spans[i].span_id : i \in 1..Len(trace.finished_spans)}
Completing(id) == cur = id /\ pc # "idle"

\* C1: exactly-once finalization. Every PendingTrace entry is completed by exactly
\* one finishSpan call: an entry still in the registry between calls has not been
\* completed and does not hold all its registered spans as finished; an entry that
\* has left the registry was completed once; and with reporting enabled
\* Writer.write was called once for it, never zero times and never twice.
C1_ExactlyOnceFinalization ==
  \A id \in TraceIds :
    /\ completed[id] <= created[id]
    /\ written[id] <= completed[id]
    /\ (id \in DOMAIN traces_ /\ ~Completing(id)) =>
         /\ completed[id] = created[id] - 1
         /\ FinishedIds(traces_[id]) # traces_[id].all_spans
    /\ (id \notin DOMAIN traces_ \/ Completing(id)) => completed[id] = created[id]
    /\ options_.enabled =>
         written[id] = IF id \notin DOMAIN traces_ \/ (Completing(id) /\ pc = "erase")
                         THEN created[id] ELSE created[id] - 1

\* a trace of two registered spans, each finished by one call, has just been handed
\* to the Writer, once
C1_Witness ==
  /\ pc = "erase"
  /\ options_.enabled
  /\ Len(writer_) = 2
  /\ writer_[1].span_id # writer_[2].span_id
  /\ traces_[cur].all_spans = {1, 2}
  /\ completed[cur] = 1
  /\ written[cur] = 1

\* C2: priority lock monotonicity. While a trace stays in the registry with
\* sampling_priority_locked true, no step changes its stored priority or clears the
\* lock, and a setSamplingPriority or assignSamplingPriority call on it returns the
\* stored priority, whatever the argument.
C2_PriorityLockMonotonic ==
  [][\A id \in TraceIds :
       (/\ id \in DOMAIN traces_
        /\ traces_[id].sampling_priority_locked
        /\ id \in DOMAIN traces_') =>
         /\ traces_'[id].sampling_priority = traces_[id].sampling_priority
         /\ traces_'[id].sampling_priority_locked
         /\ (ret'.op \in {"setSamplingPriority", "assignSamplingPriority"}
               /\ ret'.trace_id = id) => ret'.value = traces_[id].sampling_priority]_vars

\* setSamplingPriority(UserDrop) on a trace locked at SamplerKeep returned SamplerKeep
C2_Witness ==
  /\ mutex_ = "free"
  /\ 1 \in DOMAIN traces_
  /\ traces_[1].sampling_priority_locked
  /\ traces_[1].sampling_priority = "SamplerKeep"
  /\ propagated[1] = nullptr
  /\ ret = Call("setSamplingPriority", 1, 0, "UserDrop", "SamplerKeep")

\* C3: propagation precedence. A trace created by a registerSpan call carrying a
\* propagated priority holds that priority, locked, for as long as it is in the
\* registry; the sampler is never invoked for it; and the _sampling_priority_v1 of
\* every root span handed to the Writer is the propagated value.
C3_PropagationPrecedence ==
  \A id \in DOMAIN traces_ :
    propagated[id] # nullptr =>
      /\ traces_[id].sampling_priority = propagated[id]
      /\ traces_[id].sampling_priority_locked
      /\ sampled[id] = 0
      /\ (Completing(id) /\ pc = "erase") =>
           \A i \in 1..Len(writer_) :
             is_root(writer_[i], traces_[id].all_spans) =>
               /\ Has(writer_[i].metrics, sampling_priority_metric)
               /\ writer_[i].metrics[sampling_priority_metric] = PriorityInt(propagated[id])

\* a two-span trace created with propagated UserDrop has been handed to the Writer,
\* a root span of it carrying -1
C3_Witness ==
  /\ pc = "erase"
  /\ propagated[cur] = "UserDrop"
  /\ Len(writer_) = 2
  /\ \E i \in 1..2 : /\ is_root(writer_[i], traces_[cur].all_spans)
                      /\ writer_[i].metrics[sampling_priority_metric] = -1

\* C4: priority-lock protocol on an unlocked trace. A setSamplingPriority call on a
\* trace that is in the registry and not locked stores the supplied priority
\* (absent included), and the trace is locked afterwards if and only if the
\* supplied value is SamplerKeep or SamplerDrop; UserKeep and UserDrop leave it
\* unlocked.
C4_UnlockedSetProtocol ==
  [][\A id \in TraceIds :
       (/\ id \in DOMAIN traces_
        /\ ~traces_[id].sampling_priority_locked
        /\ ret'.op = "setSamplingPriority"
        /\ ret'.trace_id = id) =>
         /\ id \in DOMAIN traces_'
         /\ traces_'[id].sampling_priority = ret'.priority
         /\ traces_'[id].sampling_priority_locked
              = (ret'.priority \in {"SamplerKeep", "SamplerDrop"})
         /\ ret'.value = ret'.priority]_vars

\* a host application changed its mind: UserKeep was stored by the sampler's rule,
\* then setSamplingPriority(UserDrop) replaced it and the trace is still unlocked
C4_Witness ==
  /\ mutex_ = "free"
  /\ 1 \in DOMAIN traces_
  /\ ~traces_[1].sampling_priority_locked
  /\ traces_[1].sampling_priority = "UserDrop"
  /\ traces_[1].sample_result.sampling_priority = "UserKeep"
  /\ ret = Call("setSamplingPriority", 1, 0, "UserDrop", "UserDrop")

\* C5 as claimed: once a trace has been finalized and erased, its trace id never
\* enters the registry again and is never handed to the Writer a second time.
C5_NeverRevisited ==
  [][\A id \in TraceIds :
       (completed[id] >= 1 /\ id \notin DOMAIN traces_) =>
         (id \notin DOMAIN traces_' /\ written'[id] <= 1)]_vars

\* C5 amended: every PendingTrace entry goes Open -> Completing -> Erased once: an
\* entry is completed at most once and handed to the Writer at most once, a
\* completing finishSpan call ends with the entry erased (never back to Open), and
\* an entry leaves the registry only that way. A trace id enters the registry only
\* by a registerSpan call, which creates a fresh entry, also for a trace id that was
\* finalized and erased before.
C5_EntryLifecycle ==
  [][\A id \in TraceIds :
       /\ completed'[id] <= created'[id]
       /\ written'[id] <= completed'[id]
       /\ (Completing(id) /\ pc' = "idle") => id \notin DOMAIN traces_'
       /\ (id \in DOMAIN traces_ /\ id \notin DOMAIN traces_') =>
            (Completing(id) /\ pc = "erase")
       /\ (id \notin DOMAIN traces_ /\ id \in DOMAIN traces_') =>
            /\ ret'.op = "registerSpan" /\ ret'.trace_id = id
            /\ created'[id] = created[id] + 1
            /\ traces_'[id].finished_spans = << >>
            /\ traces_'[id].all_spans = {ret'.span_id}]_vars

\* the same trace id was registered again after its erasure, and finalized and
\* handed to the Writer a second time
C5_Witness ==
  /\ mutex_ = "free"
  /\ 1 \notin DOMAIN traces_
  /\ created[1] = 2
  /\ completed[1] = 2
  /\ written[1] = 2

\* C6: every PendingTrace in the registry has at most as many finished spans as
\* registered span ids; the two are equal only inside the finishSpan call that
\* finalizes and erases the trace, so between calls (mutex_ free) every trace in
\* the registry has strictly fewer finished spans than registered span ids.
C6_FinishedWithinRegistered ==
  \A id \in DOMAIN traces_ :
    /\ Len(traces_[id].finished_spans) <= Cardinality(traces_[id].all_spans)
    /\ Len(traces_[id].finished_spans) = Cardinality(traces_[id].all_spans) =>
         (Completing(id) /\ mutex_ = "held")
    /\ mutex_ = "free" =>
         Len(traces_[id].finished_spans) < Cardinality(traces_[id].all_spans)

\* inside the completing finishSpan call of a two-span trace the two are equal
C6_Witness ==
  /\ pc = "complete"
  /\ Cardinality(traces_[cur].all_spans) = 2
  /\ Len(traces_[cur].finished_spans) = 2

\* the call a step makes fails: finishSpan for a trace id not in the registry or a
\* span id not registered in its trace, get/setSamplingPriority for a trace id not
\* in the registry
FailingCall(call, traces) ==
  \/ /\ call.op = "finishSpan"
     /\ \/ call.trace_id \notin DOMAIN traces
        \/ call.span_id \notin traces[call.trace_id].all_spans
  \/ /\ call.op \in {"getSamplingPriority", "setSamplingPriority"}
     /\ call.trace_id \notin DOMAIN traces

\* C7: failing calls leave the buffer unchanged. Such a call leaves the registry as
\* it was, creates no entry, calls Writer.write zero times, and get/set return an
\* absent priority.
C7_FailingCallsNoOp ==
  [][FailingCall(ret', traces_) =>
       /\ traces_' = traces_
       /\ written' = written
       /\ writer_' = writer_
       /\ created' = created
       /\ completed' = completed
       /\ mutex_' = mutex_
       /\ ret'.op \in {"getSamplingPriority", "setSamplingPriority"} =>
            ret'.value = nullptr]_vars

\* finishSpan was called with a span id never registered in its trace, a trace
\* that is in the registry
C7_Witness ==
  /\ mutex_ = "free"
  /\ ret.op = "finishSpan"
  /\ ret.trace_id \in DOMAIN traces_
  /\ ret.span_id \notin traces_[ret.trace_id].all_spans
  /\ traces_[ret.trace_id].all_spans # {}

\* C8 as claimed: Writer.write is invoked only after the trace has been removed
\* from the registry, and not while the buffer's lock is held.
C8_WriteAfterEraseUnlocked ==
  [][\A id \in TraceIds :
       written'[id] > written[id] => (id \notin DOMAIN traces_ /\ mutex_ = "free")]_vars

\* C8 amended: Writer.write is invoked inside the completing finishSpan call, with
\* the buffer's lock held and the trace still in the registry; the trace is erased
\* right after it in the same critical section, so whenever the lock is free no
\* trace of the registry has been handed to the Writer.
C8_WriteUnderLockThenErase ==
  [][\A id \in TraceIds :
       /\ written'[id] > written[id] =>
            /\ mutex_ = "held" /\ mutex_' = "held"
            /\ Completing(id)
            /\ id \in DOMAIN traces_ /\ id \in DOMAIN traces_'
            /\ writer_' = traces_[id].finished_spans
            /\ pc' = "erase"
       /\ (pc = "erase" /\ cur = id) =>
            (id \notin DOMAIN traces_' /\ mutex_' = "free")
       /\ (mutex_' = "free" /\ id \in DOMAIN traces_' /\ options_.enabled) =>
            written'[id] = created'[id] - 1]_vars

\* the spans of a trace are in the Writer's hands while the lock is held and the
\* trace is in the registry
C8_Witness ==
  /\ pc = "erase"
  /\ mutex_ = "held"
  /\ cur \in DOMAIN traces_
  /\ Len(writer_) = 2
  /\ written[cur] = 1

\* C9 as claimed: over the lifetime of a trace in the registry the sampler is
\* invoked at most once for it.
C9_SampledAtMostOnce == \A id \in TraceIds : sampled[id] <= 1

\* C9 amended: the sampler is invoked for a trace only while its stored priority is
\* absent (so never once it is locked), and the invocation stores a priority; a
\* stored priority becomes absent again only by setSamplingPriority with an absent
\* value on an unlocked trace. So the sampler is invoked at most once unless such a
\* call clears a UserKeep/UserDrop decision, after which the next
\* assignSamplingPriority or completing finishSpan invokes it again.
C9_SampledOnlyWhenUnset ==
  [][\A id \in TraceIds :
       /\ sampled'[id] > sampled[id] =>
            /\ id \in DOMAIN traces_
            /\ traces_[id].sampling_priority = nullptr
            /\ ~traces_[id].sampling_priority_locked
            /\ sampled'[id] = sampled[id] + 1
            /\ traces_'[id].sampling_priority # nullptr
       /\ (/\ id \in DOMAIN traces_ /\ id \in DOMAIN traces_'
           /\ traces_[id].sampling_priority # nullptr
           /\ traces_'[id].sampling_priority = nullptr) =>
            /\ ret'.op = "setSamplingPriority" /\ ret'.trace_id = id
            /\ ret'.priority = nullptr
            /\ ~traces_[id].sampling_priority_locked
            /\ traces_[id].sampling_priority \in {"UserKeep", "UserDrop"}]_vars

\* the sampler was invoked a second time for a trace still in the registry
C9_Witness ==
  /\ 1 \in DOMAIN traces_
  /\ sampled[1] = 2
  /\ traces_[1].sampling_priority # nullptr

RateTags ==
  {rules_sampler_applied_rate, rules_sampler_limiter_rate, priority_sampler_applied_rate}

\* C10 as claimed: after PendingTrace::finish a span carries _sampling_priority_v1,
\* _dd.hostname and a rate tag if and only if it is a root span, and _dd.origin if
\* and only if the trace's origin is non-empty.
C10_RootTagsIffRoot ==
  pc = "unbuffer" =>
    LET trace == traces_[cur] IN
    \A i \in 1..Len(trace.finished_spans) :
      LET span == trace.finished_spans[i]
          root == span.parent_id = 0 \/ span.parent_id \notin trace.all_spans
      IN /\ Has(span.metrics, sampling_priority_metric) <=> root
         /\ Has(span.meta, datadog_hostname_tag) <=> root
         /\ (RateTags \cap DOMAIN span.metrics # {}) <=> root
         /\ Has(span.meta, datadog_origin_tag) <=> (trace.origin # "")

\* C10 amended: the root-only tags go to root spans only, and a root span receives
\* each of them when the trace holds its value: _sampling_priority_v1 when the
\* priority is set, _dd.hostname when a hostname is configured, _dd.rule_psr,
\* _dd.limit_psr and _dd.agent_psr each when that rate of sample_result is set (none
\* of them when the sampler was never invoked for the trace). Every span, root or
\* not, receives _dd.origin when the trace's origin is non-empty, and none does when
\* it is empty.
C10_RootTagPlacement ==
  pc = "unbuffer" =>
    LET trace == traces_[cur] IN
    \A i \in 1..Len(trace.finished_spans) :
      LET span == trace.finished_spans[i]
          root == span.parent_id = 0 \/ span.parent_id \notin trace.all_spans
          rates == trace.sample_result
      IN /\ Has(span.metrics, sampling_priority_metric)
              <=> (root /\ trace.sampling_priority # nullptr)
         /\ Has(span.metrics, sampling_priority_metric) =>
              span.metrics[sampling_priority_metric] = PriorityInt(trace.sampling_priority)
         /\ Has(span.meta, datadog_hostname_tag) <=> (root /\ trace.hostname # "")
         /\ Has(span.metrics, rules_sampler_applied_rate) <=> (root /\ rates.rule_rate # NaN)
         /\ Has(span.metrics, rules_sampler_limiter_rate)
              <=> (root /\ rates.limiter_rate # NaN)
         /\ Has(span.metrics, priority_sampler_applied_rate)
              <=> (root /\ rates.priority_rate # NaN)
         /\ Has(span.meta, datadog_origin_tag) <=> (trace.origin # "")
         /\ Has(span.meta, datadog_origin_tag) => span.meta[datadog_origin_tag] = trace.origin

\* a parent and its child were finalized in a trace with an origin, a hostname and
\* a rule-sampled priority: the parent carries the root tags, the child only the origin
C10_Witness ==
  /\ pc = "unbuffer"
  /\ traces_[cur].all_spans = {1, 2}
  /\ traces_[cur].origin # ""
  /\ traces_[cur].hostname # ""
  /\ \E i, j \in 1..Len(traces_[cur].finished_spans) :
       LET parent == traces_[cur].finished_spans[i]
           child == traces_[cur].finished_spans[j]
       IN /\ parent.span_id = 1 /\ parent.parent_id = 0
          /\ child.span_id = 2 /\ child.parent_id = 1
          /\ DOMAIN parent.metrics =
               {sampling_priority_metric, event_sample_rate_metric,
                rules_sampler_applied_rate, rules_sampler_limiter_rate}
          /\ DOMAIN parent.meta = {datadog_hostname_tag, datadog_origin_tag}
          /\ DOMAIN child.metrics = {}
          /\ DOMAIN child.meta = {datadog_origin_tag}

\* the root spans among the finished spans of a trace
RootSpans(trace) ==
  {trace.finished_spans[i] : i \in
     {j \in 1..Len(trace.finished_spans) :
        trace.finished_spans[j].parent_id = 0
          \/ trace.finished_spans[j].parent_id \notin trace.all_spans}}

\* C11: limiter gating. With max_tokens = 1, tokens_per_refresh = 1,
\* refresh_rate = 1 and a clock standing still, under the catch-all rule of rate
\* 1.0 the sampler decides UserKeep for a trace when it is the first sample call
\* and UserDrop when a sample call was made before; the decision becomes the
\* trace's priority, limiter_rate is set either way, and the root spans of the
\* finalized trace carry it as _dd.limit_psr.
C11_LimiterGating ==
  [][/\ \A id \in TraceIds :
          (rules_ = RulesKeepAll /\ sampled'[id] > sampled[id]) =>
            LET r == traces_'[id].sample_result
            IN /\ r.sampling_priority =
                    IF limiter_.recent = << >> THEN "UserKeep" ELSE "UserDrop"
               /\ traces_'[id].sampling_priority = r.sampling_priority
               /\ r.limiter_rate # NaN
               /\ now' = now
     /\ (rules_ = RulesKeepAll /\ pc' = "unbuffer" /\ sampled'[cur'] > 0) =>
          \A span \in RootSpans(traces_'[cur']) :
            /\ Has(span.metrics, rules_sampler_limiter_rate)
            /\ span.metrics[rules_sampler_limiter_rate]
                 = traces_'[cur'].sample_result.limiter_rate]_vars

\* the second trace of a run was finalized: the limiter admitted the first sample
\* call and denied this one, and its root span carries UserDrop and _dd.limit_psr
C11_Witness ==
  /\ pc = "unbuffer"
  /\ rules_ = RulesKeepAll
  /\ created[cur] = 2
  /\ limiter_.recent = <<TRUE, FALSE>>
  /\ traces_[cur].sample_result.sampling_priority = "UserDrop"
  /\ \E span \in RootSpans(traces_[cur]) :
       /\ span.metrics[sampling_priority_metric] = -1
       /\ Has(span.metrics, rules_sampler_limiter_rate)

\* every field the rule specifies equals the input
Specified(rule, service, name) ==
  /\ rule.name # Absent => rule.name = name
  /\ rule.service # Absent => rule.service = service

\* position of the first rule of the list that the input satisfies (0: none)
FirstHit(rs, service, name) ==
  IF \E i \in 1..Len(rs) : Specified(rs[i], service, name)
    THEN CHOOSE i \in 1..Len(rs) :
           /\ Specified(rs[i], service, name)
           /\ \A j \in 1..(i - 1) : ~Specified(rs[j], service, name)
    ELSE 0

\* the Limiter has a token for a call at time t, counting the refills due
Admits(lim, t) == lim.tokens > 0 \/ (t >= lim.next_refresh /\ tokens_per_refresh > 0)

\* C12: whenever a rule matches, RulesSampler.sample returns a User* priority:
\* UserKeep exactly when the trace-id hash is below the rule's rate and the
\* Limiter admits, UserDrop otherwise; rule_rate is the matched rule's rate and
\* priority_rate stays unset.
C12_RuleDecisionIsUser ==
  [][(ret'.op = "sample" /\ FirstHit(rules_, ret'.service, ret'.name) # 0) =>
       LET rule == rules_[FirstHit(rules_, ret'.service, ret'.name)]
           below == HashPct(ret'.trace_id) < rule.sample_rate
           r == ret'.result
       IN /\ r.sampling_priority \in {"UserKeep", "UserDrop"}
          /\ r.sampling_priority = "UserKeep" <=> (below /\ Admits(limiter_, now))
          /\ r.rule_rate = rule.sample_rate
          /\ r.priority_rate = NaN]_vars

\* a rule of rate 0.3 matched by service only kept a trace whose hash is below the
\* rate, after an earlier call was denied and the clock then refilled the token
C12_Witness ==
  /\ ret.op = "sample"
  /\ ret.service = "service.only.match"
  /\ ret.result.sampling_priority = "UserKeep"
  /\ ret.result.rule_rate = 30
  /\ limiter_.recent = <<FALSE, TRUE>>
  /\ now > 0

\* C13: the Limiter is applied to rule-kept traces only. When the sampler is
\* invoked for a trace and the matched rule's rate test drops it (the trace-id
\* hash is not below rule_rate), the Limiter is left as it was (token count
\* included), limiter_rate and priority_rate stay unset and the decision is
\* UserDrop; the root spans of the finalized trace then carry _dd.rule_psr but
\* neither _dd.limit_psr nor _dd.agent_psr.
C13_LimiterOnlyForKept ==
  [][/\ \A id \in TraceIds :
          LET r == traces_'[id].sample_result
          IN (/\ sampled'[id] > sampled[id]
              /\ r.rule_rate # NaN
              /\ ~(HashPct(id) < r.rule_rate)) =>
               /\ limiter_' = limiter_
               /\ r.limiter_rate = NaN
               /\ r.priority_rate = NaN
               /\ r.sampling_priority = "UserDrop"
     /\ (/\ pc' = "unbuffer"
         /\ traces_'[cur'].sample_result.rule_rate # NaN
         /\ ~(HashPct(cur') < traces_'[cur'].sample_result.rule_rate)) =>
          \A span \in RootSpans(traces_'[cur']) :
            /\ Has(span.metrics, rules_sampler_applied_rate)
            /\ span.metrics[rules_sampler_applied_rate]
                 = traces_'[cur'].sample_result.rule_rate
            /\ ~Has(span.metrics, rules_sampler_limiter_rate)
            /\ ~Has(span.metrics, priority_sampler_applied_rate)]_vars

\* a trace matched by the rule of rate 0.1 was dropped by the rate test and
\* finalized with the Limiter's token untouched; its root span carries _dd.rule_psr
C13_Witness ==
  /\ pc = "unbuffer"
  /\ rules_ = RulesTestTrace
  /\ limiter_ = InitLimiter
  /\ traces_[cur].sample_result.sampling_priority = "UserDrop"
  /\ traces_[cur].sample_result.rule_rate = 10
  /\ \E span \in RootSpans(traces_[cur]) :
       DOMAIN span.metrics \cap RateTags = {rules_sampler_applied_rate}

\* the cases of the test section "rule matching applied": service, name, rate
MatchCasesOfTest ==
  {<<"test.service", "test.trace", 10>>, <<"any.service", "name.only.match", 20>>,
   <<"service.only.match", "any.name", 30>>, <<"any.service", "any.name", 100>>}

\* C14: rule precedence. For every rule list and every (service, name),
\* RulesSampler.match returns matched = true with the rate of the first rule in
\* list order whose specified fields all equal the input, whatever later rule also
\* matches; a rule with neither field matches every input; if no rule matches,
\* matched = false and the rate is NaN.
C14_FirstMatchWins ==
  ret.op = "match" =>
    LET hit == FirstHit(rules_, ret.service, ret.name)
    IN /\ hit # 0 => (ret.result.matched /\ ret.result.rate = rules_[hit].sample_rate)
       /\ hit = 0 => (~ret.result.matched /\ ret.result.rate = NaN)
       /\ (\E i \in 1..Len(rules_) : rules_[i].name = Absent /\ rules_[i].service = Absent)
            => ret.result.matched
       /\ rules_ = RulesOfTest =>
            \A c \in MatchCasesOfTest :
              (ret.service = c[1] /\ ret.name = c[2]) => ret.result.rate = c[3]

\* the input satisfies the name-only rule of rate 0.2 and the catch-all after it,
\* in a list of the two: the rate returned is 0.2
C14_Witness ==
  /\ ret.op = "match"
  /\ Len(rules_) = 2
  /\ rules_[1] = RulesOfTest[2]
  /\ rules_[2] = RulesOfTest[5]
  /\ ret.name = "name.only.match"
  /\ ret.result = [matched |-> TRUE, rate |-> 20]

\* the span id whose env, service and name the sampler was invoked with in a step
\* that sampled trace id: the argument of assignSamplingPriority, or the last
\* finished span of the completing finishSpan
SampledSpanId(id) ==
  IF ret'.op = "assignSamplingPriority" THEN ret'.span_id
  ELSE traces_[id].finished_spans[Len(traces_[id].finished_spans)].span_id

\* C15: fallback correctness. When the sampler is invoked for a trace and no rule
\* matches, the trace's sample_result is the PrioritySampler's result:
\* priority_rate set, rule_rate and limiter_rate unset, priority SamplerKeep or
\* SamplerDrop, which becomes the trace's locked priority; the Limiter is left as
\* it was; and the root spans of the finalized trace carry _dd.agent_psr but
\* neither _dd.rule_psr nor _dd.limit_psr.
C15_FallbackToPrioritySampler ==
  [][/\ \A id \in TraceIds :
          (/\ sampled'[id] > sampled[id]
           /\ FirstHit(rules_, ServiceOf(SampledSpanId(id)), NameOf(SampledSpanId(id))) = 0) =>
            LET r == traces_'[id].sample_result
            IN /\ r = PrioritySampler_sample("", ServiceOf(SampledSpanId(id)), id)
               /\ r.priority_rate # NaN
               /\ r.rule_rate = NaN
               /\ r.limiter_rate = NaN
               /\ r.sampling_priority \in {"SamplerKeep", "SamplerDrop"}
               /\ traces_'[id].sampling_priority = r.sampling_priority
               /\ traces_'[id].sampling_priority_locked
               /\ limiter_' = limiter_
     /\ (pc' = "unbuffer" /\ traces_'[cur'].sample_result.priority_rate # NaN) =>
          \A span \in RootSpans(traces_'[cur']) :
            /\ Has(span.metrics, priority_sampler_applied_rate)
            /\ span.metrics[priority_sampler_applied_rate]
                 = traces_'[cur'].sample_result.priority_rate
            /\ ~Has(span.metrics, rules_sampler_applied_rate)
            /\ ~Has(span.metrics, rules_sampler_limiter_rate)]_vars

\* a trace completed by a span no rule matches was sampled by the PrioritySampler
\* at the agent's rate 0.5; its root span carries _dd.agent_psr and SamplerKeep
C15_Witness ==
  /\ pc = "unbuffer"
  /\ rules_ = RulesTestTrace
  /\ limiter_ = InitLimiter
  /\ traces_[cur].sample_result.sampling_priority = "SamplerKeep"
  /\ traces_[cur].sample_result.priority_rate = 50
  /\ \E span \in RootSpans(traces_[cur]) :
       /\ DOMAIN span.metrics \cap RateTags = {priority_sampler_applied_rate}
       /\ span.metrics[sampling_priority_metric] = 1

\* C16: assignSamplingPriority on a trace whose priority is already set, called
\* explicitly or by the completing finishSpan, does not invoke the sampler (the
\* Limiter is untouched) and leaves the trace's sampling_priority, lock flag and
\* sample_result unchanged; the explicit call returns the stored priority, and the
\* completing one writes the stored priority on the root spans handed off.
C16_AssignKeepsSetPriority ==
  [][/\ (/\ ret'.op = "assignSamplingPriority"
         /\ ret'.trace_id \in DOMAIN traces_
         /\ traces_[ret'.trace_id].sampling_priority # nullptr) =>
          /\ traces_' = traces_
          /\ limiter_' = limiter_
          /\ sampled' = sampled
          /\ ret'.value = traces_[ret'.trace_id].sampling_priority
     /\ (/\ pc = "complete" /\ pc' = "unbuffer"
         /\ traces_[cur].sampling_priority # nullptr) =>
          /\ limiter_' = limiter_
          /\ sampled' = sampled
          /\ traces_'[cur].sampling_priority = traces_[cur].sampling_priority
          /\ traces_'[cur].sampling_priority_locked = traces_[cur].sampling_priority_locked
          /\ traces_'[cur].sample_result = traces_[cur].sample_result
          /\ \A span \in RootSpans(traces_'[cur]) :
               /\ Has(span.metrics, sampling_priority_metric)
               /\ span.metrics[sampling_priority_metric]
                    = PriorityInt(traces_[cur].sampling_priority)]_vars

\* a trace the user set to UserKeep was finalized without the sampler being
\* invoked: no sample_result, the root span carries 2
C16_Witness ==
  /\ pc = "unbuffer"
  /\ propagated[cur] = nullptr
  /\ sampled[cur] = 0
  /\ traces_[cur].sampling_priority = "UserKeep"
  /\ ~traces_[cur].sampling_priority_locked
  /\ traces_[cur].sample_result = NoSampleResult
  /\ \E span \in RootSpans(traces_[cur]) : span.metrics[sampling_priority_metric] = 2

\* C17: liveness of completion. A trace in the registry holds every registered
\* span id as finished only inside the finishSpan call that passed the last one;
\* from there the trace is eventually erased from the registry, with its spans
\* handed to the Writer (once) when reporting is enabled, and without any
\* Writer.write call when reporting is disabled.
C17_CompletionLiveness ==
  /\ [](\A id \in DOMAIN traces_ :
          (traces_[id].all_spans \subseteq FinishedIds(traces_[id])) => Completing(id))
  /\ [](~options_.enabled => (writer_ = << >> /\ \A id \in TraceIds : written[id] = 0))
  /\ \A id \in TraceIds : \A k \in 1..MaxCreations :
       (cur = id /\ pc = "complete" /\ completed[id] = k)
         ~> (/\ id \notin DOMAIN traces_
             /\ pc = "idle"
             /\ completed[id] = k
             /\ written[id] = IF options_.enabled THEN k ELSE 0)

\* with reporting disabled, a trace whose two registered spans were both finished
\* has been erased and nothing was written
C17_Witness ==
  /\ ~options_.enabled
  /\ pc = "idle"
  /\ 1 \notin DOMAIN traces_
  /\ completed[1] = 1
  /\ written[1] = 0
  /\ ret = Call("finishSpan", 1, 2, nullptr, nullptr)

\* the span ids of the sequence handed to the Writer
WrittenIds == {writer_[i].span_id : i \in 1..Len(writer_)}
NoIdTwice == \A i, j \in 1..Len(writer_) : writer_[i].span_id = writer_[j].span_id => i = j

\* C18 as claimed: every trace handed to Writer.write contains each span id
\* registered for it exactly once, also when finishSpan is called more than once
\* with the same registered span id.
C18_EachRegisteredOnce ==
  (pc = "erase" /\ options_.enabled) =>
    (NoIdTwice /\ WrittenIds = traces_[cur].all_spans)

\* C18 amended: every trace handed to Writer.write holds as many spans as span ids
\* were registered for it, each with a registered span id; it contains each
\* registered span id exactly once if and only if no span id was passed to
\* finishSpan twice. A second finishSpan call with an already finished span id is
\* accepted and counted, so the trace can be written with that span twice and
\* another registered span omitted.
C18_WrittenCountAndIds ==
  (pc = "erase" /\ options_.enabled) =>
    /\ Len(writer_) = Cardinality(traces_[cur].all_spans)
    /\ WrittenIds \subseteq traces_[cur].all_spans
    /\ NoIdTwice <=> (WrittenIds = traces_[cur].all_spans)

\* spans 1 and 2 were registered and finishSpan was called twice with span id 1:
\* the trace was written with span 1 twice and without span 2
C18_Witness ==
  /\ pc = "erase"
  /\ options_.enabled
  /\ traces_[cur].all_spans = {1, 2}
  /\ Len(writer_) = 2
  /\ writer_[1].span_id = 1
  /\ writer_[2].span_id = 1

\* C19: every trace handed to the Writer has a decided sampling priority. From the
\* end of the completion step to the hand-off the trace's sampling_priority is
\* set, and every root span of the trace, in finished_spans and in the sequence
\* the Writer receives, carries _sampling_priority_v1 equal to it.
C19_DecidedAtHandoff ==
  /\ pc \in {"unbuffer", "erase"} => traces_[cur].sampling_priority # nullptr
  /\ pc = "unbuffer" =>
       \A span \in RootSpans(traces_[cur]) :
         /\ Has(span.metrics, sampling_priority_metric)
         /\ span.metrics[sampling_priority_metric]
              = PriorityInt(traces_[cur].sampling_priority)
  /\ pc = "erase" =>
       \A i \in 1..Len(writer_) :
         (writer_[i].parent_id = 0 \/ writer_[i].parent_id \notin traces_[cur].all_spans) =>
           /\ Has(writer_[i].metrics, sampling_priority_metric)
           /\ writer_[i].metrics[sampling_priority_metric]
                = PriorityInt(traces_[cur].sampling_priority)

\* a trace the matching rule dropped was handed to the Writer with UserDrop (-1) on
\* its root span
C19_Witness ==
  /\ pc = "erase"
  /\ sampled[cur] = 1
  /\ ret.op = "finishSpan"
  /\ traces_[cur].sampling_priority = "UserDrop"
  /\ traces_[cur].sample_result.sampling_priority = "UserDrop"
  /\ \E i \in 1..Len(writer_) :
       /\ writer_[i].parent_id = 0
       /\ writer_[i].metrics[sampling_priority_metric] = -1

\* C20: a trace whose sampling_priority_locked flag is true has a sampling
\* priority that is set. The lock is taken only together with a value: at creation
\* with the propagated priority, or by an assignment of SamplerKeep or
\* SamplerDrop; and the value of a locked trace is never cleared.
C20_LockedHasPriority ==
  [][\A id \in DOMAIN traces_' :
       LET new == traces_'[id]
           fresh == id \notin DOMAIN traces_
       IN /\ new.sampling_priority_locked => new.sampling_priority # nullptr
          /\ (fresh /\ new.sampling_priority_locked) =>
               new.sampling_priority = propagated'[id]
          /\ (~fresh /\ ~traces_[id].sampling_priority_locked
                /\ new.sampling_priority_locked) =>
               new.sampling_priority \in {"SamplerKeep", "SamplerDrop"}
          /\ (~fresh /\ traces_[id].sampling_priority_locked) =>
               (new.sampling_priority_locked
                  /\ new.sampling_priority = traces_[id].sampling_priority)]_vars

\* setSamplingPriority with an absent value on a trace the PrioritySampler locked
\* at SamplerKeep left the value in place
C20_Witness ==
  /\ 1 \in DOMAIN traces_
  /\ traces_[1].sampling_priority_locked
  /\ traces_[1].sampling_priority = "SamplerKeep"
  /\ traces_[1].sample_result.sampling_priority = "SamplerKeep"
  /\ ret = Call("setSamplingPriority", 1, 0, nullptr, "SamplerKeep")

\* C21: at trace completion the sampler is invoked with the service and operation
\* name of the span whose finishSpan call completed the trace, the last element
\* of finished_spans, root span or not: the rule matched, the rates recorded and
\* the kind of priority assigned are those of that span.
C21_SampledWithLastFinished ==
  [][(pc = "complete" /\ pc' = "unbuffer" /\ sampled'[cur] > sampled[cur]) =>
       LET fs == traces_[cur].finished_spans
           last == fs[Len(fs)]
           hit == FirstHit(rules_, last.service, last.name)
           r == traces_'[cur].sample_result
       IN /\ hit # 0 =>
               /\ r.rule_rate = rules_[hit].sample_rate
               /\ r.priority_rate = NaN
               /\ r.sampling_priority \in {"UserKeep", "UserDrop"}
          /\ hit = 0 =>
               /\ r.rule_rate = NaN
               /\ r.priority_rate # NaN
               /\ r.sampling_priority \in {"SamplerKeep", "SamplerDrop"}
          /\ traces_'[cur].sampling_priority = r.sampling_priority]_vars

\* a trace whose root span matches the rule of rate 0.1 was completed by its child
\* span, which no rule matches: the decision recorded is the PrioritySampler's
C21_Witness ==
  /\ pc = "unbuffer"
  /\ rules_ = RulesTestTrace
  /\ sampled[cur] = 1
  /\ Len(traces_[cur].finished_spans) = 2
  /\ traces_[cur].finished_spans[1].span_id = 1
  /\ traces_[cur].finished_spans[1].parent_id = 0
  /\ traces_[cur].finished_spans[2].span_id = 2
  /\ traces_[cur].finished_spans[2].parent_id = 1
  /\ FirstHit(rules_, ServiceOf(1), NameOf(1)) = 1
  /\ traces_[cur].sample_result.rule_rate = NaN
  /\ traces_[cur].sample_result.priority_rate = 50
  /\ traces_[cur].sampling_priority = "SamplerKeep"

====
